---- MODULE Spec2Model ----
(***************************************************************************)
(* promptkit `dump`: the directory collector (collect_files,               *)
(* should_include, to_relative), the file-tree builder and renderer        *)
(* (TreeNode::insert, build_file_tree, render_tree) and the prompt         *)
(* assembly and reporting of run_dump, from src/promptkit/src/main.rs.     *)
(*                                                                         *)
(* A Rust String is modelled as the sequence of its bytes (naturals), so   *)
(* that str::cmp is the byte-lexicographic order it is in Rust.            *)
(***************************************************************************)
EXTENDS Integers, Sequences, FiniteSets, TLC

VARIABLES
    root_name,      \* base name of the directory given as --path
    root_resolves,  \* whether current_dir()/canonicalize() succeed
    max_file_size,  \* DumpArgs.max_file_size
    user_message,   \* DumpArgs.task
    fs,             \* the directory's content: slot -> entry description
    pc,             \* position of run_dump
    failure,        \* the error run_dump returned ("" while none)
    stack,          \* the walker's open directory listings
    yielded,        \* the Ok entries the walker has yielded so far
    files,          \* Vec<FileDump> of collect_files
    skipped,        \* Vec<SkippedFile> of collect_files
    read_log,       \* entries fs::read was called on
    tree,           \* root TreeNode of build_file_tree
    file_tree,      \* String returned by build_file_tree
    prompt,         \* the String assembled by run_dump
    stdout,         \* what has reached standard output
    flushed,        \* stdout.flush() returned Ok
    stderr,         \* lines written by eprintln!
    runs,           \* number of runs started on this directory
    previous        \* outcome of the previous run on this directory

vars == <<root_name, root_resolves, max_file_size, user_message, fs, pc,
          failure, stack, yielded, files, skipped, read_log, tree, file_tree,
          prompt, stdout, flushed, stderr, runs, previous>>

-----------------------------------------------------------------------------
(* Bounds of the model *)

\* at most this many entries exist below the root
MaxEntries == 4
\* at most this many runs on the same directory
MaxRuns == 2
\* at most this many paths in a list handed to build_file_tree directly
MaxPaths == 3

-----------------------------------------------------------------------------
(* Strings *)

Min(a, b) == IF a < b THEN a ELSE b

\* str::cmp(a, b) == Less: byte-lexicographic, a proper prefix is smaller
StrLess(a, b) ==
    \/ /\ Len(a) < Len(b)
       /\ \A i \in 1..Len(a) : a[i] = b[i]
    \/ \E i \in 1..Min(Len(a), Len(b)) :
          /\ \A j \in 1..(i - 1) : a[j] = b[j]
          /\ a[i] < b[i]

StrLeq(a, b) == a = b \/ StrLess(a, b)

RECURSIVE Concat(_)
\* concatenation of a sequence of strings
Concat(ss) == IF ss = <<>> THEN <<>> ELSE Head(ss) \o Concat(Tail(ss))

RECURSIVE Join(_, _)
\* [String]::join(sep)
Join(ss, sep) ==
    IF ss = <<>> THEN <<>>
    ELSE IF Len(ss) = 1 THEN ss[1]
    ELSE ss[1] \o sep \o Join(Tail(ss), sep)

\* the literals of render_tree and build_file_tree
DotStr        == <<46>>                  \* "."
SlashStr      == <<47>>                  \* "/"
NewlineStr    == <<10>>                  \* "\n"
LastConnector == <<96, 45, 45, 32>>      \* "`-- "
MidConnector  == <<124, 45, 45, 32>>     \* "|-- "
LastIndent    == <<32, 32, 32, 32>>      \* "    "
MidIndent     == <<124, 32, 32, 32>>     \* "|   "

-----------------------------------------------------------------------------
(* Path::components *)

RECURSIVE SplitAt(_, _)
\* the pieces of s between occurrences of byte sep (empty pieces included)
SplitAt(s, sep) ==
    IF \A i \in 1..Len(s) : s[i] # sep THEN <<s>>
    ELSE LET k == CHOOSE i \in 1..Len(s) :
                      s[i] = sep /\ \A j \in 1..(i - 1) : s[j] # sep
         IN  <<SubSeq(s, 1, k - 1)>> \o SplitAt(SubSeq(s, k + 1, Len(s)), sep)

RECURSIVE KeepNormal(_, _, _)
\* drop empty pieces and "." pieces; a leading "." of a relative path stays
KeepNormal(pieces, i, has_root) ==
    IF i > Len(pieces) THEN <<>>
    ELSE LET p == pieces[i]
             keep == /\ p # <<>>
                     /\ (p = DotStr => (i = 1 /\ ~has_root))
         IN  (IF keep THEN <<p>> ELSE <<>>) \o KeepNormal(pieces, i + 1, has_root)

\* Path::new(s).components().map(as_os_str): repeated separators and interior
\* "." are normalised away, a leading separator is the RootDir component "/"
Components(s) ==
    LET has_root == Len(s) > 0 /\ s[1] = 47
    IN  (IF has_root THEN <<SlashStr>> ELSE <<>>)
            \o KeepNormal(SplitAt(s, 47), 1, has_root)

-----------------------------------------------------------------------------
(* TreeNode, TreeNode::insert, render_tree, build_file_tree *)

EmptyMap == [k \in {} |-> FALSE]

\* TreeNode::default()
DefaultNode == [children |-> EmptyMap, is_file |-> FALSE]

\* BTreeMap with key k bound to v
Put(m, k, v) == [x \in DOMAIN m \cup {k} |-> IF x = k THEN v ELSE m[x]]

RECURSIVE Insert(_, _)
\* TreeNode::insert(&mut self, components)
Insert(node, components) ==
    IF components = <<>> THEN node
    ELSE LET first == Head(components)
             rest  == Tail(components)
             child == IF first \in DOMAIN node.children
                        THEN node.children[first] ELSE DefaultNode
             child2 == IF rest = <<>> THEN [child EXCEPT !.is_file = TRUE]
                       ELSE Insert(child, rest)
         IN  [node EXCEPT !.children = Put(node.children, first, child2)]

RECURSIVE SortedKeys(_)
\* the keys of a BTreeMap<String, _> in iteration order (ascending str::cmp)
SortedKeys(S) ==
    IF S = {} THEN <<>>
    ELSE LET m == CHOOSE x \in S : \A y \in S : StrLeq(x, y)
         IN  <<m>> \o SortedKeys(S \ {m})

\* ChildOrder with a fault: children iterated in descending order
ChildOrderReversed(node) ==
    LET ks == SortedKeys(DOMAIN node.children)
    IN  [i \in 1..Len(ks) |-> ks[Len(ks) + 1 - i]]

\* node.children.iter(): names in the BTreeMap's order
ChildOrder(node) == SortedKeys(DOMAIN node.children)

\* DirMarker with a fault: every node with children is marked
DirMarkerAnyParent(child) ==
    IF child.children # EmptyMap THEN SlashStr ELSE <<>>

\* the '/' pushed after a name, lines 324-326
DirMarker(child) ==
    IF child.children # EmptyMap /\ ~child.is_file THEN SlashStr ELSE <<>>

RECURSIVE RenderFrom(_, _, _)
\* render_tree's loop from child number idx (0-based) on: the lines it pushes
RenderFrom(node, prefix, idx) ==
    LET order == ChildOrder(node)
        total == Len(order)
    IN  IF idx >= total THEN <<>>
        ELSE LET name    == order[idx + 1]
                 child   == node.children[name]
                 is_last == (idx + 1 = total)
                 connector == IF is_last THEN LastConnector ELSE MidConnector
                 line    == prefix \o connector \o name \o DirMarker(child)
                 new_prefix == prefix \o (IF is_last THEN LastIndent ELSE MidIndent)
                 below   == IF child.children # EmptyMap
                              THEN RenderFrom(child, new_prefix, 0) ELSE <<>>
             IN  <<line>> \o below \o RenderFrom(node, prefix, idx + 1)

\* render_tree(node, prefix, lines): the lines appended
render_tree(node, prefix) == RenderFrom(node, prefix, 0)

RECURSIVE InsertAll(_, _, _)
\* the loop of build_file_tree over files[i..]
InsertAll(root, fl, i) ==
    IF i > Len(fl) THEN root
    ELSE LET parts == Components(fl[i].relative_path)
         IN  InsertAll(IF parts = <<>> THEN root ELSE Insert(root, parts), fl, i + 1)

\* the tree build_file_tree builds before rendering it
BuildTree(fl) == InsertAll(DefaultNode, fl, 1)

\* build_file_tree(files)
build_file_tree(fl) ==
    Join(<<DotStr>> \o render_tree(BuildTree(fl), <<>>), NewlineStr)

-----------------------------------------------------------------------------
(* The directory on disk *)

NameP      == <<112>>                                \* "p"
NameA      == <<97>>                                 \* "a"
NameB      == <<98>>                                 \* "b"
NameD      == <<100>>                                \* "d"
NameE      == <<101>>                                \* "e"
NameX      == <<120>>                                \* "x"
NameGit    == <<46, 103, 105, 116>>                  \* ".git"
NameNodeModules ==
    <<110, 111, 100, 101, 95, 109, 111, 100, 117, 108, 101, 115>>  \* "node_modules"
NameTarget == <<116, 97, 114, 103, 101, 116>>        \* "target"
NameDotVenv == <<46, 118, 101, 110, 118>>            \* ".venv"
NameVenv   == <<118, 101, 110, 118>>                 \* "venv"
WalkerStr  == <<60, 119, 97, 108, 107, 101, 114, 62>>  \* "<walker>"

\* const DEFAULT_IGNORED_DIRS
DEFAULT_IGNORED_DIRS ==
    {NameGit, NameNodeModules, NameTarget, NameDotVenv, NameVenv}

\* io::Error texts
EACCES == "Permission denied (os error 13)"
EIO    == "Input/output error (os error 5)"

\* an entry of the directory: its type, whether a .gitignore or
\* .git/info/exclude rule matches it, the errors read_dir, (symlink_)metadata
\* and fs::read give on it ("" for none), and its bytes
Entry(kind, ignored, open_err, meta_err, read_err, data) ==
    [kind |-> kind, ignored |-> ignored, open_err |-> open_err,
     meta_err |-> meta_err, read_err |-> read_err, data |-> data]

Dir              == Entry("dir", FALSE, "", "", "", <<>>)
DirErr(msg)      == Entry("dir", FALSE, msg, "", "", <<>>)
IgnoredDir       == Entry("dir", TRUE, "", "", "", <<>>)
RegularFile(d)   == Entry("file", FALSE, "", "", "", d)
IgnoredFile(d)   == Entry("file", TRUE, "", "", "", d)
FileMetaErr(d)   == Entry("file", FALSE, "", EACCES, "", d)
FileReadErr(d)   == Entry("file", FALSE, "", "", EACCES, d)
Symlink          == Entry("symlink", FALSE, "", "", "", <<>>)
SymlinkMetaErr   == Entry("symlink", FALSE, "", EIO, "", <<>>)

\* file contents: "a", "a\n", 0xFF, 0xFF "a", "ab\n"
TextA     == <<97>>
TextALine == <<97, 10>>
BadByte   == <<255>>
BadByteA  == <<255, 97>>
TextABLine == <<97, 98, 10>>
Contents  == {TextA, TextALine, BadByte, BadByteA, TextABLine}

MaxFileSizes == {1, 2}
RootNames    == {NameP, NameTarget}
Tasks        == {<<102, 105, 120, 32, 10>>}          \* "fix \n"

\* a directory content: a function from paths below the root (component
\* sequences, <<>> the root itself) to entries
OneEntry(path, e) == [p \in {path} |-> e]
NoEntry == [p \in {} |-> Dir]
Merge(f, g) == [p \in DOMAIN f \cup DOMAIN g |-> IF p \in DOMAIN f THEN f[p] ELSE g[p]]

\* what may be at a
GroupA ==
    {NoEntry}
    \cup {OneEntry(<<NameA>>, RegularFile(d)) : d \in Contents}
    \cup {OneEntry(<<NameA>>, e) :
            e \in {FileMetaErr(BadByte), FileReadErr(TextA), FileReadErr(BadByteA),
                   IgnoredFile(TextA)}}

\* what may be at d and below it
GroupD ==
    {NoEntry}
    \cup {OneEntry(<<NameD>>, e) : e \in {Symlink, SymlinkMetaErr, Dir, DirErr(EACCES)}}
    \cup {Merge(OneEntry(<<NameD>>, Dir), OneEntry(<<NameD, NameB>>, RegularFile(d))) :
            d \in {TextA, BadByte, TextABLine}}
    \cup {Merge(OneEntry(<<NameD>>, IgnoredDir),
                OneEntry(<<NameD, NameB>>, RegularFile(TextA)))}
    \cup {Merge(OneEntry(<<NameD>>, Dir),
                Merge(OneEntry(<<NameD, NameVenv>>, Dir),
                      OneEntry(<<NameD, NameVenv, NameX>>, RegularFile(TextA))))}

\* what may bear one of the default-ignored names
GroupT ==
    {NoEntry}
    \cup {Merge(OneEntry(<<n>>, Dir), OneEntry(<<n, NameX>>, RegularFile(TextA))) :
            n \in DEFAULT_IGNORED_DIRS}
    \cup {OneEntry(<<NameTarget>>, e) : e \in {Dir, RegularFile(TextA), Symlink}}
    \cup {Merge(OneEntry(<<NameTarget>>, Dir),
                OneEntry(<<NameTarget, NameX>>, RegularFile(TextABLine)))}

\* what may be at e
GroupE == {NoEntry, OneEntry(<<NameE>>, DirErr(EIO)), OneEntry(<<NameE>>, RegularFile(TextALine))}

\* the root: a directory, a directory that cannot be listed, or a file
Roots == {OneEntry(<<>>, e) : e \in {Dir, DirErr(EIO), RegularFile(TextA)}}

Directories ==
    {Merge(OneEntry(<<>>, Dir), Merge(a, Merge(d, Merge(t, e)))) :
        a \in GroupA, d \in GroupD, t \in GroupT, e \in GroupE}

IsPrefix(p, q) == Len(p) <= Len(q) /\ SubSeq(q, 1, Len(p)) = p

Below(d) == DOMAIN d \ {<<>>}

-----------------------------------------------------------------------------
(* should_include, to_relative, the body of collect_files' loop *)

\* OsStr::to_str is Some: the bytes are UTF-8 (the model's bytes are ASCII and
\* 0xFF, and no UTF-8 sequence holds a byte 0xF8..0xFF)
IsUtf8(bytes) == \A i \in 1..Len(bytes) : bytes[i] < 128

RECURSIVE Lossy(_)
\* Path::display / to_string_lossy: U+FFFD (EF BF BD) for a byte that is no UTF-8
Lossy(bytes) ==
    IF bytes = <<>> THEN <<>>
    ELSE (IF Head(bytes) < 128 THEN <<Head(bytes)>> ELSE <<239, 191, 189>>)
            \o Lossy(Tail(bytes))

\* the DirEntry the walker yields for the entry at path (components below root)
DirEntryOf(path) ==
    [path |-> path,
     depth |-> Len(path),
     file_type |-> fs[path].kind,
     file_name |-> IF path = <<>> THEN root_name ELSE path[Len(path)]]

\* should_include with a fault: the name is compared at every depth
should_include_any_depth(entry) ==
    IF entry.file_type = "dir" /\ IsUtf8(entry.file_name)
    THEN entry.file_name \notin DEFAULT_IGNORED_DIRS
    ELSE TRUE

\* fn should_include(entry: &DirEntry) -> bool
should_include(entry) ==
    IF entry.depth = 0 THEN TRUE
    ELSE IF entry.file_type = "dir" /\ IsUtf8(entry.file_name)
         THEN entry.file_name \notin DEFAULT_IGNORED_DIRS
         ELSE TRUE

\* the canonical root as components, and an entry's absolute path
RootPath == <<root_name>>
AbsPath(path) == RootPath \o path

\* fn to_relative(root, path) -> String
to_relative(root, path) ==
    IF IsPrefix(root, path)
    THEN Lossy(Join(SubSeq(path, Len(root) + 1, Len(path)), SlashStr))
    ELSE Lossy(SlashStr \o Join(path, SlashStr))

FileDump(rel, contents) == [relative_path |-> rel, contents |-> contents]

\* enum SkipReason
TooLarge(len) == [tag |-> "TooLarge", len |-> len, msg |-> ""]
NonUtf8       == [tag |-> "NonUtf8", len |-> 0, msg |-> ""]
Io(msg)       == [tag |-> "Io", len |-> 0, msg |-> msg]

SkippedFile(rel, reason) == [relative_path |-> rel, reason |-> reason]

\* metadata.len() as usize: u64 to usize keeps the value on a 64-bit target
AsUsize(n) == n

Outcome(f, s, r) == [files |-> f, skipped |-> s, read |-> r]

\* Body with a fault: the size test is >= instead of >
BodyOffByOne(entry, root, limit) ==
    LET e   == fs[entry.path]
        rel == to_relative(root, AbsPath(entry.path))
    IN  IF entry.depth = 0 \/ entry.file_type = "dir" THEN Outcome(<<>>, <<>>, FALSE)
        ELSE IF e.meta_err # "" THEN Outcome(<<>>, <<SkippedFile(rel, Io(e.meta_err))>>, FALSE)
        ELSE IF e.kind # "file" THEN Outcome(<<>>, <<>>, FALSE)
        ELSE IF AsUsize(Len(e.data)) >= limit
             THEN Outcome(<<>>, <<SkippedFile(rel, TooLarge(Len(e.data)))>>, FALSE)
        ELSE IF e.read_err # "" THEN Outcome(<<>>, <<SkippedFile(rel, Io(e.read_err))>>, TRUE)
        ELSE IF ~IsUtf8(e.data) THEN Outcome(<<>>, <<SkippedFile(rel, NonUtf8)>>, TRUE)
        ELSE Outcome(<<FileDump(rel, e.data)>>, <<>>, TRUE)

\* Body with a fault: the bytes are decoded with from_utf8_lossy, so nothing
\* is NonUtf8
BodyLossy(entry, root, limit) ==
    LET e   == fs[entry.path]
        rel == to_relative(root, AbsPath(entry.path))
    IN  IF entry.depth = 0 \/ entry.file_type = "dir" THEN Outcome(<<>>, <<>>, FALSE)
        ELSE IF e.meta_err # "" THEN Outcome(<<>>, <<SkippedFile(rel, Io(e.meta_err))>>, FALSE)
        ELSE IF e.kind # "file" THEN Outcome(<<>>, <<>>, FALSE)
        ELSE IF AsUsize(Len(e.data)) > limit
             THEN Outcome(<<>>, <<SkippedFile(rel, TooLarge(Len(e.data)))>>, FALSE)
        ELSE IF e.read_err # "" THEN Outcome(<<>>, <<SkippedFile(rel, Io(e.read_err))>>, TRUE)
        ELSE Outcome(<<FileDump(rel, Lossy(e.data))>>, <<>>, TRUE)

\* Body with a fault: the read error's `continue` without the push before it
BodyDropsReadError(entry, root, limit) ==
    LET e   == fs[entry.path]
        rel == to_relative(root, AbsPath(entry.path))
    IN  IF entry.depth = 0 \/ entry.file_type = "dir" THEN Outcome(<<>>, <<>>, FALSE)
        ELSE IF e.meta_err # "" THEN Outcome(<<>>, <<SkippedFile(rel, Io(e.meta_err))>>, FALSE)
        ELSE IF e.kind # "file" THEN Outcome(<<>>, <<>>, FALSE)
        ELSE IF AsUsize(Len(e.data)) > limit
             THEN Outcome(<<>>, <<SkippedFile(rel, TooLarge(Len(e.data)))>>, FALSE)
        ELSE IF e.read_err # "" THEN Outcome(<<>>, <<>>, TRUE)
        ELSE IF ~IsUtf8(e.data) THEN Outcome(<<>>, <<SkippedFile(rel, NonUtf8)>>, TRUE)
        ELSE Outcome(<<FileDump(rel, e.data)>>, <<>>, TRUE)

\* Body with a fault: the metadata.is_file() test is missing
BodyNoIsFileTest(entry, root, limit) ==
    LET e   == fs[entry.path]
        rel == to_relative(root, AbsPath(entry.path))
    IN  IF entry.depth = 0 \/ entry.file_type = "dir" THEN Outcome(<<>>, <<>>, FALSE)
        ELSE IF e.meta_err # "" THEN Outcome(<<>>, <<SkippedFile(rel, Io(e.meta_err))>>, FALSE)
        ELSE IF AsUsize(Len(e.data)) > limit
             THEN Outcome(<<>>, <<SkippedFile(rel, TooLarge(Len(e.data)))>>, FALSE)
        ELSE IF e.read_err # "" THEN Outcome(<<>>, <<SkippedFile(rel, Io(e.read_err))>>, TRUE)
        ELSE IF ~IsUtf8(e.data) THEN Outcome(<<>>, <<SkippedFile(rel, NonUtf8)>>, TRUE)
        ELSE Outcome(<<FileDump(rel, e.data)>>, <<>>, TRUE)

\* the arm Ok(dir_entry) of collect_files' loop, lines 177-235: the records it
\* pushes and whether it calls fs::read
Body(entry, root, limit) ==
    LET e   == fs[entry.path]
        rel == to_relative(root, AbsPath(entry.path))
    IN  IF entry.depth = 0 THEN Outcome(<<>>, <<>>, FALSE)
        ELSE IF entry.file_type = "dir" THEN Outcome(<<>>, <<>>, FALSE)
        ELSE IF e.meta_err # ""
             THEN Outcome(<<>>, <<SkippedFile(rel, Io(e.meta_err))>>, FALSE)
        ELSE IF e.kind # "file" THEN Outcome(<<>>, <<>>, FALSE)
        ELSE IF AsUsize(Len(e.data)) > limit
             THEN Outcome(<<>>, <<SkippedFile(rel, TooLarge(Len(e.data)))>>, FALSE)
        ELSE IF e.read_err # ""
             THEN Outcome(<<>>, <<SkippedFile(rel, Io(e.read_err))>>, TRUE)
        ELSE IF ~IsUtf8(e.data)
             THEN Outcome(<<>>, <<SkippedFile(rel, NonUtf8)>>, TRUE)
        ELSE Outcome(<<FileDump(rel, e.data)>>, <<>>, TRUE)

\* SortByPath with a fault: the lists are returned as collected
SortByPathNone(s) == s

RECURSIVE SortFrom(_, _, _)
SortFrom(s, i, acc) ==
    IF i > Len(s) THEN acc
    ELSE LET x == s[i]
             k == Cardinality({j \in 1..Len(acc) :
                                  StrLeq(acc[j].relative_path, x.relative_path)})
         IN  SortFrom(s, i + 1,
                      SubSeq(acc, 1, k) \o <<x>> \o SubSeq(acc, k + 1, Len(acc)))

\* v.sort_by(|a, b| a.relative_path.cmp(&b.relative_path)): a stable sort
SortByPath(s) == SortFrom(s, 1, <<>>)

-----------------------------------------------------------------------------
(* The walker built by WalkBuilder, and collect_files *)

OkItem(path)       == [ok |-> TRUE, path |-> path, msg |-> ""]
ErrItem(path, msg) == [ok |-> FALSE, path |-> path, msg |-> msg]

Children(path) == {c \in DOMAIN fs : Len(c) = Len(path) + 1 /\ IsPrefix(path, c)}

\* what the walker will yield from inside the directory at path: the error of
\* read_dir, or the children that neither the ignore rules (git_ignore,
\* git_exclude, parents) nor filter_entry reject; hidden(false) keeps dotfiles
Listing(path) ==
    IF fs[path].open_err # "" THEN {ErrItem(path, fs[path].open_err)}
    ELSE {OkItem(c) : c \in {c \in Children(path) :
                                ~fs[c].ignored /\ should_include(DirEntryOf(c))}}

RECURSIVE Settle(_)
\* exhausted listings are popped
Settle(st) ==
    IF st = <<>> THEN <<>>
    ELSE IF st[Len(st)] = {} THEN Settle(SubSeq(st, 1, Len(st) - 1))
    ELSE st

\* builder.build(): the root is the first entry, filter_entry is consulted on
\* it as on every entry
WalkStart ==
    Settle(<<IF should_include(DirEntryOf(<<>>)) THEN {OkItem(<<>>)} ELSE {}>>)

-----------------------------------------------------------------------------
(* run_dump *)

\* one write into the prompt: the format string's literal and its argument
\* ("fence" stands for the three backquotes of a code fence)
Part(lit, arg) == [lit |-> lit, arg |-> arg]

IsSpace(b) == b \in {9, 10, 11, 12, 13, 32}

RECURSIVE TrimEnd(_)
\* str::trim_end
TrimEnd(s) ==
    IF s # <<>> /\ IsSpace(s[Len(s)]) THEN TrimEnd(SubSeq(s, 1, Len(s) - 1)) ELSE s

\* str::ends_with('\n')
EndsWithNewline(s) == s # <<>> /\ s[Len(s)] = 10

RECURSIVE FileSections(_, _)
\* the loop of lines 116-124 over fl[i..]
FileSections(fl, i) ==
    IF i > Len(fl) THEN <<>>
    ELSE <<Part("### {}\n", fl[i].relative_path),
           Part("fence\n", <<>>),
           Part("{}", fl[i].contents)>>
         \o (IF EndsWithNewline(fl[i].contents) THEN <<>> ELSE <<Part("\n", <<>>)>>)
         \o <<Part("fence\n\n", <<>>)>>
         \o FileSections(fl, i + 1)

\* the prompt of lines 99-132
Assemble(root, fl, tree_text, task) ==
    <<Part("The following is the context of a directory. [...]\n", <<>>),
      Part("\n", <<>>),
      Part("# Repository Context\n", <<>>),
      Part("Root: {}\n", Lossy(SlashStr \o Join(root, SlashStr))),
      Part("\n", <<>>),
      Part("## File Tree\n", <<>>),
      Part("{}\n", tree_text),
      Part("\n", <<>>),
      Part("## Files\n", <<>>)>>
    \o FileSections(fl, 1)
    \o <<Part("# Task\n", <<>>),
         Part("Based on the context above, please finish the following task:\n", <<>>),
         Part("{}\n", TrimEnd(task)),
         Part("\n", <<>>)>>

\* tokenizer.encode_ordinary(&prompt).len(): opaque, here a count of the parts
TokenCount(p) == Len(p)

RECURSIVE TotalBytes(_, _)
\* files.iter().map(|file| file.contents.len()).sum()
TotalBytes(fl, i) ==
    IF i > Len(fl) THEN 0 ELSE Len(fl[i].contents) + TotalBytes(fl, i + 1)

SkippedLine(sf) ==
    [kind |-> "Skipped", path |-> sf.relative_path, reason |-> sf.reason,
     tokens |-> 0, files_included |-> 0, files_skipped |-> 0, bytes |-> 0]

StatsLine(t, fi, fsk, b) ==
    [kind |-> "Stats", path |-> <<>>, reason |-> Io(""),
     tokens |-> t, files_included |-> fi, files_skipped |-> fsk, bytes |-> b]

NoRun == [collected |-> FALSE, files |-> <<>>, skipped |-> <<>>, prompt |-> <<>>]

\* the state a run starts from
Fresh ==
    /\ pc = "start"
    /\ failure = ""
    /\ stack = <<>>
    /\ yielded = {}
    /\ files = <<>>
    /\ skipped = <<>>
    /\ read_log = {}
    /\ tree = DefaultNode
    /\ file_tree = <<>>
    /\ prompt = <<>>
    /\ stdout = <<>>
    /\ flushed = FALSE
    /\ stderr = <<>>

Init ==
    /\ root_name \in RootNames
    /\ root_resolves \in BOOLEAN
    /\ max_file_size \in MaxFileSizes
    /\ user_message \in Tasks
    /\ fs \in IF root_resolves THEN Roots \cup Directories ELSE {NoEntry}
    /\ Cardinality(Below(fs)) <= MaxEntries
    /\ Fresh
    /\ runs = 1
    /\ previous = NoRun

\* run_dump, lines 87-95: the root is resolved, or the run fails
ResolveRoot ==
    /\ pc = "start"
    /\ IF root_resolves
       THEN /\ pc' = "walk"
            /\ stack' = WalkStart
            /\ failure' = failure
       ELSE /\ pc' = "failed"
            /\ failure' = "failed to resolve path"
            /\ stack' = stack
    /\ UNCHANGED <<root_name, root_resolves, max_file_size, user_message, fs,
                   yielded, files, skipped, read_log, tree, file_tree, prompt,
                   stdout, flushed, stderr, runs, previous>>

\* one iteration of `for entry in builder.build()`, lines 175-247
WalkNext ==
    /\ pc = "walk"
    /\ stack # <<>>
    /\ \E item \in stack[Len(stack)] :
          LET rest == [stack EXCEPT ![Len(stack)] = @ \ {item}]
          IN  IF item.ok
              THEN LET entry == DirEntryOf(item.path)
                       out   == Body(entry, RootPath, max_file_size)
                   IN  /\ files' = files \o out.files
                       /\ skipped' = skipped \o out.skipped
                       /\ read_log' = IF out.read THEN read_log \cup {item.path}
                                      ELSE read_log
                       /\ yielded' = yielded \cup {item.path}
                       /\ stack' = Settle(IF entry.file_type = "dir"
                                          THEN Append(rest, Listing(item.path))
                                          ELSE rest)
              ELSE /\ skipped' = Append(skipped, SkippedFile(WalkerStr, Io(item.msg)))
                   /\ stack' = Settle(rest)
                   /\ UNCHANGED <<files, read_log, yielded>>
    /\ UNCHANGED <<root_name, root_resolves, max_file_size, user_message, fs, pc,
                   failure, tree, file_tree, prompt, stdout, flushed, stderr,
                   runs, previous>>

\* the walker is exhausted: lines 249-252
WalkDone ==
    /\ pc = "walk"
    /\ stack = <<>>
    /\ files' = SortByPath(files)
    /\ skipped' = SortByPath(skipped)
    /\ pc' = "assemble"
    /\ UNCHANGED <<root_name, root_resolves, max_file_size, user_message, fs,
                   failure, stack, yielded, read_log, tree, file_tree, prompt,
                   stdout, flushed, stderr, runs, previous>>

\* run_dump, lines 99-132
AssemblePrompt ==
    /\ pc = "assemble"
    /\ tree' = BuildTree(files)
    /\ file_tree' = build_file_tree(files)
    /\ prompt' = Assemble(RootPath, files, build_file_tree(files), user_message)
    /\ pc' = "write"
    /\ UNCHANGED <<root_name, root_resolves, max_file_size, user_message, fs,
                   failure, stack, yielded, files, skipped, read_log, stdout,
                   flushed, stderr, runs, previous>>

\* WriteStdout with a fault: the flush is missing
WriteStdoutNoFlush ==
    /\ pc = "write"
    /\ \/ /\ stdout' = prompt
          /\ flushed' = FALSE
          /\ pc' = "stats"
          /\ failure' = failure
       \/ \E n \in 0..Len(prompt) :
             /\ stdout' = SubSeq(prompt, 1, n)
             /\ flushed' = FALSE
             /\ pc' = "failed"
             /\ failure' = "write"
    /\ UNCHANGED <<root_name, root_resolves, max_file_size, user_message, fs,
                   stack, yielded, files, skipped, read_log, tree, file_tree,
                   prompt, stderr, runs, previous>>

\* run_dump, lines 134-136: write_all and flush succeed, or one of them fails
\* after some part of the prompt has reached standard output
WriteStdout ==
    /\ pc = "write"
    /\ \/ /\ stdout' = prompt
          /\ flushed' = TRUE
          /\ pc' = "stats"
          /\ failure' = failure
       \/ \E n \in 0..Len(prompt) :
             /\ stdout' = SubSeq(prompt, 1, n)
             /\ flushed' = FALSE
             /\ pc' = "failed"
             /\ failure' = "write"
    /\ UNCHANGED <<root_name, root_resolves, max_file_size, user_message, fs,
                   stack, yielded, files, skipped, read_log, tree, file_tree,
                   prompt, stderr, runs, previous>>

\* run_dump, lines 140-158: the tokenizer loads and the report is written to
\* standard error, or the tokenizer fails to load
ReportStats ==
    /\ pc = "stats"
    /\ \/ /\ stderr' = [i \in 1..Len(skipped) |-> SkippedLine(skipped[i])]
                        \o <<StatsLine(TokenCount(prompt), Len(files), Len(skipped),
                                       TotalBytes(files, 1))>>
          /\ pc' = "done"
          /\ failure' = failure
       \/ /\ stderr' = stderr
          /\ pc' = "failed"
          /\ failure' = "failed to load cl100k_base tokenizer"
    /\ UNCHANGED <<root_name, root_resolves, max_file_size, user_message, fs,
                   stack, yielded, files, skipped, read_log, tree, file_tree,
                   prompt, stdout, flushed, runs, previous>>

\* the program is run again on the unchanged directory with the same arguments
Rerun ==
    /\ pc \in {"done", "failed"}
    /\ runs < MaxRuns
    /\ runs' = runs + 1
    /\ previous' = [collected |-> failure # "failed to resolve path",
                    files |-> files, skipped |-> skipped, prompt |-> prompt]
    /\ pc' = "start"
    /\ failure' = ""
    /\ stack' = <<>>
    /\ yielded' = {}
    /\ files' = <<>>
    /\ skipped' = <<>>
    /\ read_log' = {}
    /\ tree' = DefaultNode
    /\ file_tree' = <<>>
    /\ prompt' = <<>>
    /\ stdout' = <<>>
    /\ flushed' = FALSE
    /\ stderr' = <<>>
    /\ UNCHANGED <<root_name, root_resolves, max_file_size, user_message, fs>>

Next ==
    \/ ResolveRoot
    \/ WalkNext
    \/ WalkDone
    \/ AssemblePrompt
    \/ WriteStdout
    \/ ReportStats
    \/ Rerun

Spec == Init /\ [][Next]_vars

-----------------------------------------------------------------------------
(* build_file_tree on its own, for any list of relative paths *)

\* "a", "a/b", "a/b.txt", "a/c.txt", "d.txt", "b", "a/b/x", ""
PathA    == <<97>>
PathAB   == <<97, 47, 98>>
PathABtxt == <<97, 47, 98, 46, 116, 120, 116>>
PathACtxt == <<97, 47, 99, 46, 116, 120, 116>>
PathDtxt == <<100, 46, 116, 120, 116>>
PathB    == <<98>>
PathABX  == <<97, 47, 98, 47, 120>>
PathEmpty == <<>>
Paths == {PathA, PathAB, PathABtxt, PathACtxt, PathDtxt, PathB, PathABX, PathEmpty}

RECURSIVE PathLists(_)
\* the lists of at most n paths
PathLists(n) ==
    IF n = 0 THEN {<<>>}
    ELSE PathLists(n - 1)
         \cup {Append(l, p) : l \in {k \in PathLists(n - 1) : Len(k) = n - 1}, p \in Paths}

TreeInit ==
    /\ root_name = NameP
    /\ root_resolves = TRUE
    /\ max_file_size = 1
    /\ user_message \in Tasks
    /\ fs = OneEntry(<<>>, Dir)
    /\ pc = "tree"
    /\ failure = ""
    /\ stack = <<>>
    /\ yielded = {}
    /\ \E l \in PathLists(MaxPaths) :
          files = [i \in 1..Len(l) |-> FileDump(l[i], <<>>)]
    /\ skipped = <<>>
    /\ read_log = {}
    /\ tree = DefaultNode
    /\ file_tree = <<>>
    /\ prompt = <<>>
    /\ stdout = <<>>
    /\ flushed = FALSE
    /\ stderr = <<>>
    /\ runs = 1
    /\ previous = NoRun

\* build_file_tree(&files), lines 294-313
BuildFileTree ==
    /\ pc = "tree"
    /\ tree' = BuildTree(files)
    /\ file_tree' = build_file_tree(files)
    /\ pc' = "tree_done"
    /\ UNCHANGED <<root_name, root_resolves, max_file_size, user_message, fs,
                   failure, stack, yielded, files, skipped, read_log, prompt,
                   stdout, flushed, stderr, runs, previous>>

TreeNext == BuildFileTree

TreeSpec == TreeInit /\ [][TreeNext]_vars

-----------------------------------------------------------------------------
(* What the claims speak of, stated on the directory itself *)

ResolveFailure   == "failed to resolve path"
TokenizerFailure == "failed to load cl100k_base tokenizer"

\* collect_files has returned
Collected ==
    \/ pc \in {"assemble", "write", "stats", "done"}
    \/ pc = "failed" /\ failure # ResolveFailure

\* the prompt has been assembled
Assembled ==
    \/ pc \in {"write", "stats", "done"}
    \/ pc = "failed" /\ failure # ResolveFailure

\* the relative path of the entry at p, as a string
RelPath(p) == Join(p, SlashStr)

Up(p, k) == SubSeq(p, 1, k)

\* p is or lies in a directory below the root that bears a default-ignored name
UnderIgnoredName(p) ==
    \E k \in 1..Len(p) :
        fs[Up(p, k)].kind = "dir" /\ p[k] \in DEFAULT_IGNORED_DIRS

\* the traversal prunes the entry at p itself
Pruned(p) ==
    \/ fs[p].ignored
    \/ fs[p].kind = "dir" /\ p[Len(p)] \in DEFAULT_IGNORED_DIRS

\* the traversal comes to the entry at p: nothing on the way is pruned and
\* every directory above it can be listed
Reached(p) ==
    /\ \A k \in 1..Len(p) : ~Pruned(Up(p, k))
    /\ \A k \in 0..(Len(p) - 1) :
          fs[Up(p, k)].kind = "dir" /\ fs[Up(p, k)].open_err = ""

Reach == {p \in DOMAIN fs : Reached(p)}

PathCount(s, path) == Cardinality({i \in 1..Len(s) : s[i].relative_path = path})

\* the records collect_files holds for the entry at p
RecordCount(p) == PathCount(files, RelPath(p)) + PathCount(skipped, RelPath(p))

Has(s, x) == \E i \in 1..Len(s) : s[i] = x

\* the admission chain: metadata error, not a regular file, too large, read
\* error, not UTF-8, else a FileRecord
Verdict(p) ==
    LET e == fs[p]
    IN  IF e.meta_err # "" THEN [emit |-> "skip", reason |-> Io(e.meta_err)]
        ELSE IF e.kind # "file" THEN [emit |-> "none", reason |-> Io("")]
        ELSE IF Len(e.data) > max_file_size
             THEN [emit |-> "skip", reason |-> TooLarge(Len(e.data))]
        ELSE IF e.read_err # "" THEN [emit |-> "skip", reason |-> Io(e.read_err)]
        ELSE IF \E i \in 1..Len(e.data) : e.data[i] >= 128
             THEN [emit |-> "skip", reason |-> NonUtf8]
        ELSE [emit |-> "file", reason |-> Io("")]

Leaves == {p \in yielded : p # <<>> /\ fs[p].kind # "dir"}

ValidText(d) == \A i \in 1..Len(d) : d[i] < 128

-----------------------------------------------------------------------------
(* C1 *)

Sorted(s) ==
    \A i \in 1..(Len(s) - 1) : StrLeq(s[i].relative_path, s[i + 1].relative_path)

\* C1: whatever the order in which the traversal yielded the entries, both
\* lists collect_files returns are sorted by relative path in byte order.
C1_ListsSorted == Collected => Sorted(files) /\ Sorted(skipped)

\* two included files and three skip records, one of them the walker's
C1_Witness ==
    /\ Collected
    /\ Len(files) >= 2
    /\ Len(skipped) >= 2
    /\ \E i \in 1..Len(skipped) : skipped[i].relative_path = WalkerStr
    /\ \E i \in 1..Len(skipped) : skipped[i].relative_path # WalkerStr

-----------------------------------------------------------------------------
(* C2 *)

\* C2: a second run on the unchanged directory, with the same arguments,
\* returns the same included list and the same skipped list from
\* collect_files and assembles the same prompt, whatever the order in which
\* either traversal yielded entries and errors.
C2_RerunIdentical ==
    (previous.collected /\ Collected) =>
        /\ files = previous.files
        /\ skipped = previous.skipped
        /\ (Assembled => prompt = previous.prompt)

-----------------------------------------------------------------------------
(* C3 *)

BadFiles == {p \in Leaves : fs[p].kind = "file" /\ ~ValidText(fs[p].data)}

\* C3, as claimed: every regular file the traversal reaches whose bytes are
\* not UTF-8 is skipped as NonUtf8 and is not included, whatever its length.
C3_AlwaysNonUtf8 ==
    Collected =>
        \A p \in BadFiles :
            /\ Has(skipped, SkippedFile(RelPath(p), NonUtf8))
            /\ PathCount(files, RelPath(p)) = 0

\* C3, amended: a reached regular file whose bytes are not UTF-8 is never
\* included and has exactly one skip record; its reason is NonUtf8 when the
\* metadata is read, the length is at most max_file_size and the read
\* succeeds, TooLarge(length) when the length exceeds max_file_size (the file
\* is then not read), and IoError when the metadata or the read fails.
C3_NeverIncluded ==
    Collected =>
        \A p \in BadFiles :
            LET e == fs[p]
                reason == IF e.meta_err # "" THEN Io(e.meta_err)
                          ELSE IF Len(e.data) > max_file_size THEN TooLarge(Len(e.data))
                          ELSE IF e.read_err # "" THEN Io(e.read_err)
                          ELSE NonUtf8
            IN  /\ PathCount(files, RelPath(p)) = 0
                /\ PathCount(skipped, RelPath(p)) = 1
                /\ Has(skipped, SkippedFile(RelPath(p), reason))
                /\ (Len(e.data) > max_file_size => p \notin read_log)

\* one bad file within the limit skipped as NonUtf8, one over it as TooLarge
C3_Witness ==
    /\ Collected
    /\ \E p, q \in BadFiles :
          /\ Has(skipped, SkippedFile(RelPath(p), NonUtf8))
          /\ Has(skipped, SkippedFile(RelPath(q), TooLarge(Len(fs[q].data))))

-----------------------------------------------------------------------------
(* C4 *)

\* C4, as claimed: when a run fails, nothing of the prompt has been written
\* to standard output.
C4_NoOutputOnFailure == pc = "failed" => stdout = <<>>

IsPrefixOf(s, t) == Len(s) <= Len(t) /\ SubSeq(t, 1, Len(s)) = s

\* C4, amended: a run that fails to resolve the root fails before anything is
\* written to standard output; a run in which the tokenizer fails to load
\* fails after the whole prompt has been written and flushed; a run in which
\* the write fails may have written any leading part of the prompt. In each
\* case nothing has been written to standard error.
C4_FailurePoints ==
    pc = "failed" =>
        /\ failure \in {ResolveFailure, "write", TokenizerFailure}
        /\ (failure = ResolveFailure => stdout = <<>> /\ prompt = <<>>)
        /\ (failure = TokenizerFailure => stdout = prompt /\ flushed /\ prompt # <<>>)
        /\ (failure = "write" => IsPrefixOf(stdout, prompt) /\ ~flushed)
        /\ stderr = <<>>

\* the tokenizer failed after a prompt with a file section was written
C4_Witness ==
    /\ pc = "failed"
    /\ failure = TokenizerFailure
    /\ Len(files) >= 1
    /\ stdout = prompt

-----------------------------------------------------------------------------
(* C5 *)

GoodFiles ==
    {p \in Leaves : /\ fs[p].kind = "file"
                    /\ fs[p].meta_err = ""
                    /\ fs[p].read_err = ""
                    /\ ValidText(fs[p].data)}

\* C5: a readable regular file of valid UTF-8 that the traversal reaches is
\* included with its text when its length is at most max_file_size, and is
\* skipped as TooLarge carrying its length, without being read, when its
\* length is max_file_size + 1 or more.
C5_SizeBoundary ==
    \A p \in GoodFiles :
        IF Len(fs[p].data) <= max_file_size
        THEN /\ Has(files, FileDump(RelPath(p), fs[p].data))
             /\ RecordCount(p) = 1
        ELSE /\ Has(skipped, SkippedFile(RelPath(p), TooLarge(Len(fs[p].data))))
             /\ RecordCount(p) = 1
             /\ p \notin read_log

\* a file of exactly max_file_size bytes included, one of one byte more skipped
C5_Witness ==
    /\ Collected
    /\ \E p, q \in GoodFiles :
          /\ Len(fs[p].data) = max_file_size
          /\ Has(files, FileDump(RelPath(p), fs[p].data))
          /\ Len(fs[q].data) = max_file_size + 1
          /\ Has(skipped, SkippedFile(RelPath(q), TooLarge(max_file_size + 1)))

-----------------------------------------------------------------------------
(* C6 *)

\* C6: a directory below the root that bears one of the default-ignored names
\* is never yielded, and neither it nor anything in it has a record, whether
\* or not an ignore rule covers it; the root is traversed whatever its name.
C6_DefaultIgnored ==
    /\ \A p \in Below(fs) :
          UnderIgnoredName(p) => p \notin yielded /\ RecordCount(p) = 0
    /\ Collected => \A p \in Reach : p \in yielded

\* the root is named target, a directory named target below it holds a file,
\* and a file beside it was included
C6_Witness ==
    /\ Collected
    /\ root_name = NameTarget
    /\ <<NameTarget, NameX>> \in DOMAIN fs
    /\ ~fs[<<NameTarget>>].ignored
    /\ Len(files) >= 1

-----------------------------------------------------------------------------
(* C7 *)

FailedLeaves == {p \in Reach : p # <<>> /\ fs[p].kind # "dir" /\ Verdict(p).emit = "skip"}
UnlistableDirs == {p \in Reach : fs[p].kind = "dir" /\ fs[p].open_err # ""}

\* C7: collect_files returns with one skip record per failed entry (too
\* large, not UTF-8, metadata error, read error) and one per traversal error,
\* having gone on to every entry it can come to; the Skipped lines and the
\* Stats line are written only after the whole prompt has been written to
\* standard output and flushed.
C7_FailuresAccumulate ==
    /\ Collected =>
          /\ yielded = Reach
          /\ \A p \in FailedLeaves : PathCount(skipped, RelPath(p)) = 1
          /\ PathCount(skipped, WalkerStr) = Cardinality(UnlistableDirs)
          /\ Len(skipped) = Cardinality(FailedLeaves) + Cardinality(UnlistableDirs)
    /\ stderr # <<>> =>
          /\ stdout = prompt
          /\ flushed
          /\ Len(stderr) = Len(skipped) + 1
          /\ \A i \in 1..Len(skipped) :
                /\ stderr[i].kind = "Skipped"
                /\ stderr[i].path = skipped[i].relative_path
                /\ stderr[i].reason = skipped[i].reason
          /\ stderr[Len(stderr)].kind = "Stats"
          /\ stderr[Len(stderr)].files_skipped = Len(skipped)
    /\ pc = "done" => stderr # <<>>

\* a finished run that reported a read error, a traversal error and another
\* failure, and included a file
C7_Witness ==
    /\ pc = "done"
    /\ Len(files) >= 1
    /\ \E p \in FailedLeaves : fs[p].read_err # "" /\ Verdict(p).reason = Io(fs[p].read_err)
    /\ UnlistableDirs # {}
    /\ Len(skipped) >= 3

-----------------------------------------------------------------------------
(* C10 *)

\* C10, as claimed: every entry yielded below the root that is not a
\* directory (a regular file, a symbolic link) has exactly one record; the
\* root and the directories have none.
C10_OneRecordPerLeaf ==
    \A p \in yielded :
        IF p # <<>> /\ fs[p].kind # "dir" THEN RecordCount(p) = 1
        ELSE RecordCount(p) = 0

\* C10, amended: every regular file yielded below the root has exactly one
\* record, chosen by the chain metadata error -> IoError, length >
\* max_file_size -> TooLarge, read error -> IoError, invalid UTF-8 -> NonUtf8,
\* otherwise a FileRecord; a yielded entry that is neither a directory nor a
\* regular file (a symbolic link) has one IoError record when its metadata
\* cannot be read and no record otherwise; the root and the directories have
\* none.
C10_OneRecordPerRegularFile ==
    \A p \in yielded :
        IF p = <<>> \/ fs[p].kind = "dir" THEN RecordCount(p) = 0
        ELSE LET v == Verdict(p)
             IN  /\ (fs[p].kind = "file" => v.emit # "none")
                 /\ (fs[p].kind # "file" /\ fs[p].meta_err = "" => v.emit = "none")
                 /\ CASE v.emit = "file" ->
                            /\ RecordCount(p) = 1
                            /\ Has(files, FileDump(RelPath(p), fs[p].data))
                      [] v.emit = "skip" ->
                            /\ RecordCount(p) = 1
                            /\ Has(skipped, SkippedFile(RelPath(p), v.reason))
                      [] OTHER -> RecordCount(p) = 0

\* a symbolic link was yielded and has no record, beside a regular file with one
C10_Witness ==
    /\ Collected
    /\ \E p, q \in Leaves :
          /\ fs[p].kind = "symlink"
          /\ fs[p].meta_err = ""
          /\ RecordCount(p) = 0
          /\ fs[q].kind = "file"
          /\ RecordCount(q) = 1

-----------------------------------------------------------------------------
(* C8, C9: the rendered tree, stated on the list of paths *)

\* the component sequences of the paths handed to build_file_tree
FullPaths == {Components(files[i].relative_path) : i \in 1..Len(files)} \ {<<>>}

\* the tree's nodes: every non-empty leading part of a path
Nodes == UNION {{Up(c, k) : k \in 1..Len(c)} : c \in FullPaths}

ParentOf(n) == Up(n, Len(n) - 1)
Siblings(n) == {m \in Nodes : Len(m) = Len(n) /\ ParentOf(m) = ParentOf(n)}
IsLastChild(n) == \A m \in Siblings(n) : StrLeq(m[Len(m)], n[Len(n)])
HasChild(n) == \E m \in Nodes : Len(m) = Len(n) + 1 /\ ParentOf(m) = n

\* depth-first order with siblings in the order of their names
Before(m, n) ==
    \/ Len(m) < Len(n) /\ Up(n, Len(m)) = m
    \/ \E i \in 1..Min(Len(m), Len(n)) :
          /\ Up(m, i - 1) = Up(n, i - 1)
          /\ StrLess(m[i], n[i])

RECURSIVE InOrder(_)
InOrder(S) ==
    IF S = {} THEN <<>>
    ELSE LET first == CHOOSE n \in S : \A m \in S \ {n} : Before(n, m)
         IN  <<first>> \o InOrder(S \ {first})

\* the line of node n without its marker: the ancestors' indentation, the
\* connector and the name
LineOf(n) ==
    Concat([k \in 1..(Len(n) - 1) |->
                IF IsLastChild(Up(n, k)) THEN LastIndent ELSE MidIndent])
    \o (IF IsLastChild(n) THEN LastConnector ELSE MidConnector)
    \o n[Len(n)]

TreeLines == SplitAt(file_tree, 10)

PathsOf(fl) == [i \in 1..Len(fl) |-> fl[i].relative_path]

\* ".", "|-- a/", "|   |-- b.txt", "|   `-- c.txt", "`-- d.txt"
ExampleTree ==
    Join(<<DotStr,
           MidConnector \o <<97, 47>>,
           MidIndent \o MidConnector \o <<98, 46, 116, 120, 116>>,
           MidIndent \o LastConnector \o <<99, 46, 116, 120, 116>>,
           LastConnector \o <<100, 46, 116, 120, 116>>>>, NewlineStr)

\* C8: the rendering is the line "." followed by one line per node of the
\* tree, depth first with siblings in the order of their names whatever the
\* order of the list; the last child of a node has the connector "`-- " and
\* the others "|-- ", after "|   " for each ancestor that is not a last child
\* and "    " for each that is. [a/b.txt, a/c.txt, d.txt] renders as the
\* five lines of ExampleTree, and the empty list as ".".
C8_TreeShape ==
    pc = "tree_done" =>
        LET order == InOrder(Nodes)
        IN  /\ Len(TreeLines) = 1 + Cardinality(Nodes)
            /\ TreeLines[1] = DotStr
            /\ \A i \in 1..Len(order) :
                  \/ TreeLines[i + 1] = LineOf(order[i])
                  \/ TreeLines[i + 1] = LineOf(order[i]) \o SlashStr
            /\ (PathsOf(files) = <<PathABtxt, PathACtxt, PathDtxt>> => file_tree = ExampleTree)
            /\ (files = <<>> => file_tree = DotStr)

\* the example's paths, given last first, rendered as the example
C8_Witness ==
    /\ pc = "tree_done"
    /\ PathsOf(files) = <<PathDtxt, PathACtxt, PathABtxt>>
    /\ file_tree = ExampleTree

RECURSIVE NodeAt(_, _)
\* the TreeNode of the built tree at component sequence n
NodeAt(node, n) == IF n = <<>> THEN node ELSE NodeAt(node.children[Head(n)], Tail(n))

EndsWithSlash(s) == s # <<>> /\ s[Len(s)] = 47

\* C9: a node's line ends in "/" exactly when the node has a child and is not
\* marked is_file, and a node is marked is_file exactly when a path of the
\* list ends at it; so with both a and a/b in the list, a is rendered
\* without "/" and b is listed beneath it.
C9_DirMarker ==
    pc = "tree_done" =>
        LET order == InOrder(Nodes)
        IN  /\ Len(TreeLines) = 1 + Len(order)
            /\ \A i \in 1..Len(order) :
                  LET n == order[i]
                      node == NodeAt(tree, n)
                  IN  /\ node.is_file <=> n \in FullPaths
                      /\ (node.children # EmptyMap) <=> HasChild(n)
                      /\ EndsWithSlash(TreeLines[i + 1])
                            <=> (node.children # EmptyMap /\ ~node.is_file)
                      /\ (HasChild(n) => /\ i < Len(order)
                                         /\ ParentOf(order[i + 1]) = n)

\* a and a/b: ".", "`-- a", "    `-- b"
C9_Witness ==
    /\ pc = "tree_done"
    /\ PathsOf(files) = <<PathA, PathAB>>
    /\ file_tree = Join(<<DotStr, LastConnector \o <<97>>,
                          LastIndent \o LastConnector \o <<98>>>>, NewlineStr)

====
